---- MODULE Spec2Model ----
(***************************************************************************)
(* State-machine model of the MultiSelect widget: the server-mode loader   *)
(* (useAsyncItems), the selection ledger (useSelection), the keyboard      *)
(* cursor (useKeyboardNavigation) and the ordering functions               *)
(* (utils/ordering.ts).                                                    *)
(*                                                                         *)
(* React scheduling: every action below is one event handler (DOM event,   *)
(* timer callback, promise continuation) TOGETHER with the render and the  *)
(* effects that React commits for the state it set; the ref-mirroring      *)
(* effects (loadingRef, queryRef, selectedSet) therefore hold the value of *)
(* the state they mirror at the start of every handler.                    *)
(*                                                                         *)
(* Text is a sequence of one-character strings.                            *)
(***************************************************************************)
EXTENDS Integers, Sequences, FiniteSets, TLC

\* ------------------------------------------------------------------ bounds
\* number of rows the item source holds (server mode)
NServerItems == 3
\* the pageSize prop the widget is configured with
pageSize == 2
\* longest selection / MRU sequence drawn as input of the ordering functions
MaxSelLen == 2

\* --------------------------------------------------------------- constants
\* the searchDelay prop (its default value)
searchDelay == 300
\* handleScroll: proximity threshold in pixels
threshold == 100

\* ------------------------------------------------------------------- text
UpperChars == <<"A","B","C","D","E","F","G","H","I","J","K","L","M",
                "N","O","P","Q","R","S","T","U","V","W","X","Y","Z">>
LowerChars == <<"a","b","c","d","e","f","g","h","i","j","k","l","m",
                "n","o","p","q","r","s","t","u","v","w","x","y","z">>

\* String.prototype.toLowerCase
toLowerCase(s) ==
    [i \in 1..Len(s) |->
        IF \E k \in 1..26 : UpperChars[k] = s[i]
        THEN LowerChars[CHOOSE k \in 1..26 : UpperChars[k] = s[i]]
        ELSE s[i]]

\* the code unit U+0131 (dotless i), a letter without a round trip:
\* toUpperCase maps it to "I", toLowerCase maps "I" to "i" and leaves U+0131
DotlessI == "U+0131"

\* String.prototype.toUpperCase
toUpperCase(s) ==
    [i \in 1..Len(s) |->
        IF \E k \in 1..26 : LowerChars[k] = s[i]
        THEN UpperChars[CHOOSE k \in 1..26 : LowerChars[k] = s[i]]
        ELSE IF s[i] = DotlessI THEN "I"
        ELSE s[i]]

\* String.prototype.includes
includes(h, n) ==
    \E i \in 0..(Len(h) - Len(n)) : SubSeq(h, i + 1, i + Len(n)) = n

Range(s) == {s[i] : i \in 1..Len(s)}

\* Array.prototype.slice(start, end) on a 0-based half-open interval
slice(s, start, end) ==
    SubSeq(s, start + 1, IF end > Len(s) THEN Len(s) ELSE end)

\* Array.prototype.includes / indexOf (0-based, -1 when absent)
indexOf(s, x) ==
    IF \E i \in 1..Len(s) : s[i] = x
    THEN (CHOOSE i \in 1..Len(s) : s[i] = x /\ \A j \in 1..(i-1) : s[j] # x) - 1
    ELSE -1

\* Array.prototype.filter(x => x !== id)
without(s, id) == SelectSeq(s, LAMBDA x : x # id)

\* ------------------------------------------------------------------ items
\* the items of the tests: ids 1..4 with their labels
Labels == << <<"A","l","p","h","a">>, <<"B","e","t","a">>,
             <<"G","a","m","m","a">>, <<"D","e","l","t","a">> >>
Ids == 1..Len(Labels)
Label(id) == Labels[id]

\* the items prop of local mode
mockItems == <<1, 2, 3, 4>>

\* the query texts the user types
Queries == { <<>>, <<"a">>, <<"a","b">> }

\* ------------------------------------------------------------ item source
\* rows held by the backend
ALL_ITEMS == [i \in 1..NServerItems |-> i]

\* fetchItems(query, page): substring filter, then the page slice
fetchItems(q, page) ==
    LET filtered == IF q # <<>>
                    THEN SelectSeq(ALL_ITEMS,
                           LAMBDA id : includes(toLowerCase(Label(id)), toLowerCase(q)))
                    ELSE ALL_ITEMS
        offset == page * pageSize
    IN  slice(filtered, offset, offset + pageSize)

\* --------------------------------------------------------------- ordering
\* Array.prototype.sort with a numeric comparator key(a) - key(b): stable
\* insertion of each element after the last element whose key is <= its own
\* (key is a function from the elements to their sort key)
RECURSIVE sortBy(_, _)
sortBy(s, key) ==
    IF s = <<>> THEN <<>>
    ELSE LET init == sortBy(SubSeq(s, 1, Len(s) - 1), key)
             x    == s[Len(s)]
             pos  == Cardinality({i \in 1..Len(init) : key[init[i]] <= key[x]})
         IN  SubSeq(init, 1, pos) \o <<x>> \o SubSeq(init, pos + 1, Len(init))

\* the comparator's Infinity for an id that has no position
Infinity == 1000

\* separateItems(items, selectedIds): [selected, unselected]
separateItems(items, sel) ==
    LET selectedSet == Range(sel)
        \* Map.set keeps the LAST index of a repeated id; ?? Infinity when absent
        selectedOrder == [id \in Ids |->
                             IF indexOf(sel, id) >= 0
                             THEN (CHOOSE i \in 1..Len(sel) :
                                      sel[i] = id /\ \A j \in (i+1)..Len(sel) : sel[j] # id) - 1
                             ELSE Infinity]
        selected == SelectSeq(items, LAMBDA id : id \in selectedSet)
        unselected == SelectSeq(items, LAMBDA id : id \notin selectedSet)
    IN  [selected |-> sortBy(selected, selectedOrder), unselected |-> unselected]

\* orderItemsAsync(items, selectedIds)
orderItemsAsync(items, sel) ==
    LET parts == separateItems(items, sel)
    IN  parts.selected \o parts.unselected

\* ------------------------------------------------------------------ fuzzy
\* fuzzyScore's null (no match); every score is >= 0
NoMatch == -1

\* isWordBoundary(s, i), i 0-based
isWordBoundary(s, i) ==
    \/ i = 0
    \/ s[i] \in {" ", "-", "_", "/"}

\* String.prototype.startsWith
startsWith(h, n) == Len(n) <= Len(h) /\ SubSeq(h, 1, Len(n)) = n

\* the for/while loops of fuzzyScore: i is the needle index, hIdx the haystack
\* cursor (both 0-based); the result is the loop's final state, found = FALSE
\* standing for the early "return null"
RECURSIVE fuzzyScan(_, _, _, _, _, _, _)
fuzzyScan(h, n, i, hIdx, penalty, consecutive, firstMatchIndex) ==
    IF i >= Len(n)
    THEN [found |-> TRUE, penalty |-> penalty, consecutive |-> consecutive,
          firstMatchIndex |-> firstMatchIndex]
    ELSE IF hIdx >= Len(h)
    THEN [found |-> FALSE, penalty |-> penalty, consecutive |-> consecutive,
          firstMatchIndex |-> firstMatchIndex]
    ELSE IF h[hIdx + 1] = n[i + 1]
    THEN fuzzyScan(h, n, i + 1, hIdx + 1,
                   IF isWordBoundary(h, hIdx) THEN penalty - 1 ELSE penalty,
                   IF i > 0 /\ hIdx > 0 /\ h[hIdx] = n[i] THEN consecutive + 1 ELSE 1,
                   IF firstMatchIndex = -1 THEN hIdx ELSE firstMatchIndex)
    ELSE fuzzyScan(h, n, i, hIdx + 1, penalty + 1, consecutive, firstMatchIndex)

\* mutant: the two strings are compared as they are written
fuzzyScore_caseSensitive(haystack, needle) ==
    IF needle = <<>> THEN 0
    ELSE LET h == haystack
             n == needle
             r == fuzzyScan(h, n, 0, 0, 0, 0, -1)
         IN  IF ~r.found THEN NoMatch
             ELSE LET prefixBonus == IF startsWith(h, n) THEN -5 ELSE 0
                      wordBonus == IF isWordBoundary(h, r.firstMatchIndex) THEN -3 ELSE 0
                      consecutiveBonus == 0 - r.consecutive
                      total == r.penalty + prefixBonus + wordBonus + consecutiveBonus
                  IN  IF total > 0 THEN total ELSE 0

\* mutant: the total is returned as it is, below 0 too
fuzzyScore_unclamped(haystack, needle) ==
    IF needle = <<>> THEN 0
    ELSE LET h == toLowerCase(haystack)
             n == toLowerCase(needle)
             r == fuzzyScan(h, n, 0, 0, 0, 0, -1)
         IN  IF ~r.found THEN NoMatch
             ELSE LET prefixBonus == IF startsWith(h, n) THEN -5 ELSE 0
                      wordBonus == IF isWordBoundary(h, r.firstMatchIndex) THEN -3 ELSE 0
                      consecutiveBonus == 0 - r.consecutive
                  IN  r.penalty + prefixBonus + wordBonus + consecutiveBonus

\* fuzzyScore(haystack, needle)
fuzzyScore(haystack, needle) ==
    IF needle = <<>> THEN 0
    ELSE LET h == toLowerCase(haystack)
             n == toLowerCase(needle)
             r == fuzzyScan(h, n, 0, 0, 0, 0, -1)
         IN  IF ~r.found THEN NoMatch
             ELSE LET prefixBonus == IF startsWith(h, n) THEN -5 ELSE 0
                      wordBonus == IF isWordBoundary(h, r.firstMatchIndex) THEN -3 ELSE 0
                      consecutiveBonus == 0 - r.consecutive
                      total == r.penalty + prefixBonus + wordBonus + consecutiveBonus
                  IN  IF total > 0 THEN total ELSE 0

\* mutant: the matches are not sorted by score
fuzzyFilter_unsorted(items, q) ==
    SelectSeq(items, LAMBDA id : fuzzyScore(Label(id), q) # NoMatch)

\* fuzzyFilter(items, i => i.label, query) without a limit: the matching ids,
\* sorted by score
fuzzyFilter(items, q) ==
    LET score == [id \in Ids |-> fuzzyScore(Label(id), q)]
        results == SelectSeq(items, LAMBDA id : score[id] # NoMatch)
    IN  sortBy(results, score)

\* fuzzyFilter's limit parameter left out (typeof limit !== 'number')
NoLimit == -1

\* mutant: the limit keeps one entry more
fuzzyFilterLimit_oneMore(items, q, limit) ==
    LET results == fuzzyFilter(items, q)
    IN  IF limit # NoLimit THEN slice(results, 0, limit + 1) ELSE results

\* fuzzyFilter(items, i => i.label, query, limit), limit >= 0 or left out:
\* results.slice(0, limit)
fuzzyFilterLimit(items, q, limit) ==
    LET results == fuzzyFilter(items, q)
    IN  IF limit # NoLimit THEN slice(results, 0, limit) ELSE results

\* mutant: the selected items are listed again among the rest
orderItemsSync_repeatsSelected(items, sel, q) ==
    LET parts == separateItems(items, sel)
    IN  IF q = <<>>
        THEN parts.selected \o items
        ELSE parts.selected \o fuzzyFilter(parts.unselected, q)

\* orderItemsSync(items, selectedIds, query)
orderItemsSync(items, sel, q) ==
    LET parts == separateItems(items, sel)
    IN  IF q = <<>>
        THEN parts.selected \o parts.unselected
        ELSE parts.selected \o fuzzyFilter(parts.unselected, q)

\* mutant: the query filters the selected items as well
orderItemsSyncMru_filterAll(items, sel, q, mruOrder) ==
    LET selectedSet == Range(sel)
        selected == SelectSeq(items, LAMBDA id : id \in selectedSet)
        unselected == SelectSeq(items, LAMBDA id : id \notin selectedSet)
        mruIndex == [id \in Ids |->
                        IF indexOf(mruOrder, id) >= 0 THEN indexOf(mruOrder, id)
                        ELSE Infinity]
        sorted == sortBy(selected, mruIndex)
    IN  IF q = <<>> THEN sorted \o unselected
        ELSE fuzzyFilter(sorted \o unselected, q)

\* orderItemsSync(items, selectedIds, query, mruOrder): the variant that takes
\* the MRU order as its own argument
orderItemsSyncMru(items, sel, q, mruOrder) ==
    LET selectedSet == Range(sel)
        selected == SelectSeq(items, LAMBDA id : id \in selectedSet)
        unselected == SelectSeq(items, LAMBDA id : id \notin selectedSet)
        mruIndex == [id \in Ids |->
                        IF indexOf(mruOrder, id) >= 0
                        THEN (CHOOSE i \in 1..Len(mruOrder) :
                                 mruOrder[i] = id
                                 /\ \A j \in (i+1)..Len(mruOrder) : mruOrder[j] # id) - 1
                        ELSE Infinity]
        sorted == sortBy(selected, mruIndex)
    IN  IF q = <<>> THEN sorted \o unselected
        ELSE sorted \o fuzzyFilter(unselected, q)

\* =================================================================== state
VARIABLES
    mode,                \* "sync" (items prop) or "async" (fetchItems prop)
    open, query,         \* MultiSelect: useState
    selectedIds,         \* the controlled selectedIds prop (parent state)
    activeIndex,         \* useKeyboardNavigation: useState
    asyncItems, loading, hasMore, error, selectedItemsCache,  \* useAsyncItems: useState
    pageRef, queryRef, loadingRef, initialLoadDoneRef,        \* useAsyncItems: useRef
    abortControllerRef, lastQueryRef, debounceTimerRef,
    timers,              \* pending window.setTimeout callbacks
    requests,            \* fetchItems promises not yet settled
    lastPageLen,         \* ghost: length of the last page applied since the last reset, -1 if none
    viaCommit,           \* ghost: ids selected by a commit while their item was in the buffer
    call                 \* input and result of a pure function under check

navVars == <<open, activeIndex>>
loaderVars == <<asyncItems, loading, hasMore, error, pageRef, loadingRef,
                abortControllerRef, requests, lastPageLen>>
debounceVars == <<queryRef, lastQueryRef, debounceTimerRef, timers>>
vars == <<mode, open, query, selectedIds, activeIndex,
          asyncItems, loading, hasMore, error, selectedItemsCache,
          pageRef, queryRef, loadingRef, initialLoadDoneRef,
          abortControllerRef, lastQueryRef, debounceTimerRef,
          timers, requests, lastPageLen, viaCommit, call>>

isAsync == mode \in {"async", "both"}
isSync == mode \in {"sync", "both"}

\* the selectedIds prop the widget is mounted with
InitialSelections == { <<>>, <<3>> }

\* distances (px) between the scroll position and the content end
ScrollDistances == {99, 100}

\* MultiSelect: the orderedItems memo
orderedItems ==
    IF isSync THEN orderItemsSync(mockItems, selectedIds, query)
    ELSE orderItemsAsync(asyncItems, selectedIds)

\* getSelectedItem(id) is defined
getSelectedItem(id) ==
    IF isSync THEN id \in Range(mockItems)
    ELSE id \in selectedItemsCache \/ id \in Range(asyncItems)

\* smallest handle not in use
NewId(S) == CHOOSE i \in 1..(Cardinality(S) + 1) :
                i \notin {x.id : x \in S} /\ \A j \in 1..(i - 1) : j \in {x.id : x \in S}

\* mutant: the pending timeout is not cleared
clearTimeout_forgotten(ts, handle) == ts

\* window.clearTimeout(handle)
clearTimeout(ts, handle) == {t \in ts : t.id # handle}

\* AbortController.abort() on the controller of request `handle`
abort(rs, handle) ==
    {IF r.id = handle THEN [r EXCEPT !.aborted = TRUE] ELSE r : r \in rs}

\* ghost: every request in flight is now superseded
supersede(rs) == {[r EXCEPT !.superseded = TRUE] : r \in rs}

\* ------------------------------------------------------------------- Init
\* the state after mount: in server mode the debounce effect has armed its
\* timer (delay 0) and the initial-load effect has called loadMore(true)
Init ==
    /\ mode \in {"sync", "async"}
    /\ open = FALSE
    /\ query = <<>>
    /\ selectedIds \in InitialSelections
    /\ activeIndex = 0
    /\ asyncItems = <<>>
    /\ hasMore = TRUE
    /\ error = FALSE
    /\ selectedItemsCache = {}
    /\ pageRef = 0
    /\ queryRef = <<>>
    /\ lastQueryRef = <<>>
    /\ initialLoadDoneRef = FALSE
    /\ lastPageLen = -1
    /\ viaCommit = {}
    /\ call = [op |-> "none"]
    /\ IF mode = "async"
       THEN /\ loading = TRUE
            /\ loadingRef = TRUE
            /\ abortControllerRef = 1
            /\ requests = {[id |-> 1, query |-> <<>>, page |-> 0, reset |-> TRUE,
                            aborted |-> FALSE, superseded |-> FALSE,
                            origin |-> "mount"]}
            /\ timers = {[id |-> 1, delay |-> 0, q |-> <<>>, replacedPending |-> FALSE]}
            /\ debounceTimerRef = 1
       ELSE /\ loading = FALSE
            /\ loadingRef = FALSE
            /\ abortControllerRef = 0
            /\ requests = {}
            /\ timers = {}
            /\ debounceTimerRef = 0

\* --------------------------------------------------------------- the loader
\* mutant: a load starts while another is pending and cancels nothing
loadMore_concurrent(reset, origin, err0) ==
    IF ~isAsync
    THEN /\ error' = err0
         /\ UNCHANGED <<asyncItems, loading, hasMore, pageRef, loadingRef,
                        abortControllerRef, requests, lastPageLen>>
    ELSE LET id == NewId(requests)
             page == IF reset THEN 0 ELSE pageRef
         IN  /\ abortControllerRef' = id
             /\ pageRef' = page
             /\ asyncItems' = IF reset THEN <<>> ELSE asyncItems
             /\ hasMore' = IF reset THEN TRUE ELSE hasMore
             /\ lastPageLen' = IF reset THEN -1 ELSE lastPageLen
             /\ loading' = TRUE
             /\ loadingRef' = TRUE
             /\ error' = FALSE
             /\ requests' = supersede(requests) \cup
                    {[id |-> id, query |-> queryRef, page |-> page, reset |-> reset,
                      aborted |-> FALSE, superseded |-> FALSE,
                      origin |-> origin]}

\* loadMore(reset): origin is a ghost tag of the request it
\* issues, err0 is the error state at the call
loadMore(reset, origin, err0) ==
    IF ~isAsync \/ loadingRef
    THEN /\ error' = err0
         /\ UNCHANGED <<asyncItems, loading, hasMore, pageRef, loadingRef,
                        abortControllerRef, requests, lastPageLen>>
    ELSE LET cancelled == IF abortControllerRef # 0
                          THEN abort(requests, abortControllerRef) ELSE requests
             id == NewId(requests)
             page == IF reset THEN 0 ELSE pageRef
         IN  /\ abortControllerRef' = id
             /\ pageRef' = page
             /\ asyncItems' = IF reset THEN <<>> ELSE asyncItems
             /\ hasMore' = IF reset THEN TRUE ELSE hasMore
             /\ lastPageLen' = IF reset THEN -1 ELSE lastPageLen
             /\ loading' = TRUE
             /\ loadingRef' = TRUE
             /\ error' = FALSE
             /\ requests' = supersede(cancelled) \cup
                    {[id |-> id, query |-> queryRef, page |-> page, reset |-> reset,
                      aborted |-> FALSE, superseded |-> FALSE,
                      origin |-> origin]}

\* mutant: the abort check after the await is missing
signalAborted_unchecked(r) == FALSE

\* abortController.signal.aborted of request r
signalAborted(r) == r.aborted

\* mutant: a full page is taken for the last one
moreAfter_strict(fetched) == Len(fetched) > pageSize

\* setHasMore(fetched.length >= pageSize)
moreAfter(fetched) == Len(fetched) >= pageSize

\* loadMore, the try block after the abort check: the fetched page is applied
applyPage(r) ==
    LET fetched == fetchItems(r.query, r.page)
    IN  /\ asyncItems' = IF r.reset THEN fetched ELSE asyncItems \o fetched
        /\ hasMore' = moreAfter(fetched)
        /\ selectedItemsCache' = selectedItemsCache \cup
               (Range(fetched) \cap Range(selectedIds))
        /\ pageRef' = pageRef + 1
        /\ lastPageLen' = Len(fetched)
        /\ UNCHANGED error

\* mutant: a failure drops the buffer
catchError_dropsBuffer ==
    /\ error' = TRUE
    /\ asyncItems' = <<>>
    /\ UNCHANGED <<hasMore, selectedItemsCache, pageRef, lastPageLen>>

\* loadMore, the catch block after the abort check
catchError ==
    /\ error' = TRUE
    /\ UNCHANGED <<asyncItems, hasMore, selectedItemsCache, pageRef, lastPageLen>>

\* loadMore, the finally block of a request that was not aborted
finallyBlock ==
    /\ loading' = FALSE
    /\ loadingRef' = FALSE
    /\ abortControllerRef' = 0

\* the continuation of loadMore after `await fetchItems(...)` for request r:
\* ok = TRUE when the promise fulfils, FALSE when it rejects
Resolve(r, ok) ==
    /\ r \in requests
    /\ requests' = requests \ {r}
    /\ IF signalAborted(r)
       THEN UNCHANGED <<asyncItems, loading, hasMore, error, pageRef, loadingRef,
                        abortControllerRef, lastPageLen, selectedItemsCache>>
       ELSE /\ IF ok THEN applyPage(r) ELSE catchError
            /\ finallyBlock
    /\ UNCHANGED <<mode, open, query, selectedIds, activeIndex, queryRef,
                   initialLoadDoneRef, lastQueryRef, debounceTimerRef, timers,
                   viaCommit, call>>

\* the debounce timer's callback
TimerFire(t) ==
    /\ t \in timers
    /\ timers' = timers \ {t}
    /\ initialLoadDoneRef' = TRUE
    /\ loadMore(TRUE, "timer", error)
    /\ UNCHANGED <<mode, open, query, selectedIds, activeIndex, selectedItemsCache,
                   queryRef, lastQueryRef, debounceTimerRef, viaCommit, call>>

\* mutant: the error state does not hold the scroll trigger back
handleScroll_ignoresError(dist) ==
    /\ isAsync /\ ~isSync /\ open
    /\ UNCHANGED <<mode, open, query, selectedIds, activeIndex, selectedItemsCache,
                   queryRef, initialLoadDoneRef, lastQueryRef, debounceTimerRef,
                   timers, viaCommit, call>>
    /\ Len(orderedItems) > 0
    /\ LET nearBottom == dist < threshold
       IN  IF nearBottom /\ hasMore /\ ~loadingRef
           THEN loadMore(FALSE, "scroll", error)
           ELSE UNCHANGED loaderVars

\* handleScroll, the listbox's onScroll (the scroll container is rendered
\* when fetchItems is passed without items, while the view is non-empty); dist is
\* scrollHeight - scrollTop - clientHeight
handleScroll(dist) ==
    /\ isAsync /\ ~isSync /\ open
    /\ UNCHANGED <<mode, open, query, selectedIds, activeIndex, selectedItemsCache,
                   queryRef, initialLoadDoneRef, lastQueryRef, debounceTimerRef,
                   timers, viaCommit, call>>
    /\ Len(orderedItems) > 0
    /\ LET nearBottom == dist < threshold
       IN  IF nearBottom /\ hasMore /\ ~loadingRef /\ ~error
           THEN loadMore(FALSE, "scroll", error)
           ELSE UNCHANGED loaderVars

\* mutant: retry clears the error and loads nothing
retry_clearOnly ==
    /\ isAsync /\ open
    /\ error /\ Len(orderedItems) = 0
    /\ error' = FALSE
    /\ UNCHANGED <<asyncItems, loading, hasMore, pageRef, loadingRef,
                   abortControllerRef, requests, lastPageLen>>
    /\ UNCHANGED <<mode, open, query, selectedIds, activeIndex, selectedItemsCache,
                   queryRef, initialLoadDoneRef, lastQueryRef, debounceTimerRef,
                   timers, viaCommit, call>>

\* retry, the onClick of the Retry button (rendered by Listbox/EmptyState when
\* there is an error and the view is empty): setError(null); loadMore(true)
retry ==
    /\ isAsync /\ open
    /\ error /\ Len(orderedItems) = 0
    /\ loadMore(TRUE, "retry", FALSE)
    /\ UNCHANGED <<mode, open, query, selectedIds, activeIndex, selectedItemsCache,
                   queryRef, initialLoadDoneRef, lastQueryRef, debounceTimerRef,
                   timers, viaCommit, call>>

\* ------------------------------------------------------- query and effects
\* the effects committed when setQuery(q2) changes the query: queryRef is
\* mirrored and, in server mode, the debounce effect runs (cleanup, then body)
queryEffects(q2) ==
    /\ query' = q2
    /\ IF isAsync /\ q2 # query
       THEN LET cleared == clearTimeout(timers, debounceTimerRef)
                pending == {t \in timers : t.id = debounceTimerRef}
                id == NewId(cleared)
                delay == IF initialLoadDoneRef THEN searchDelay ELSE 0
            IN  /\ queryRef' = q2
                /\ lastQueryRef' = q2
                /\ timers' = cleared \cup
                      {[id |-> id, delay |-> delay, q |-> q2,
                        replacedPending |-> pending # {}]}
                /\ debounceTimerRef' = id
                /\ IF q2 # lastQueryRef /\ abortControllerRef # 0
                   THEN /\ requests' = supersede(abort(requests, abortControllerRef))
                        /\ abortControllerRef' = 0
                   ELSE /\ requests' = supersede(requests)
                        /\ UNCHANGED abortControllerRef
       ELSE /\ queryRef' = q2
            /\ UNCHANGED <<lastQueryRef, timers, debounceTimerRef, requests,
                           abortControllerRef>>

\* mutant: the cursor is not reset
activeAfter_keeps(open2, query2, idx) == idx

\* mutant: every render of the open dropdown puts the cursor on the first row
activeAfter_alwaysResets(open2, query2, idx) == IF open2 THEN 0 ELSE idx

\* useKeyboardNavigation: the effect on [query, open] that resets the cursor
activeAfter(open2, query2, idx) ==
    IF open2 /\ (open2 # open \/ query2 # query) THEN 0 ELSE idx

\* the input's onChange: setQuery(e.target.value)
setQuery(q2) ==
    /\ q2 # query
    /\ queryEffects(q2)
    /\ activeIndex' = activeAfter(open, q2, activeIndex)
    /\ UNCHANGED <<mode, open, selectedIds, asyncItems, loading, hasMore, error,
                   selectedItemsCache, pageRef, loadingRef, initialLoadDoneRef,
                   lastPageLen, viaCommit, call>>

\* ---------------------------------------------------------------- selection
\* String.prototype.trim() leaves nothing
isBlank(q) == \A i \in 1..Len(q) : q[i] = " "

\* mutant: a commit that selects does not store the item
commitCache_noUpsert(id, isRemoving) ==
    IF isRemoving THEN selectedItemsCache \ {id} ELSE selectedItemsCache

\* commitSelection's setSelectedItemsCache updater
commitCache(id, isRemoving) ==
    IF isRemoving THEN selectedItemsCache \ {id}
    ELSE IF id \in Range(asyncItems) THEN selectedItemsCache \cup {id}
    ELSE selectedItemsCache

\* mutant: a newly selected id goes to the end of the sequence
commitSelection_appends(id) ==
    LET isRemoving == id \in Range(selectedIds)
        next == IF isRemoving THEN without(selectedIds, id)
                ELSE without(selectedIds, id) \o <<id>>
    IN  /\ selectedIds' = next
        /\ IF isAsync
           THEN /\ selectedItemsCache' = commitCache(id, isRemoving)
                /\ viaCommit' =
                      IF isRemoving THEN viaCommit \ {id}
                      ELSE IF id \in Range(asyncItems) THEN viaCommit \cup {id}
                      ELSE viaCommit
           ELSE UNCHANGED <<selectedItemsCache, viaCommit>>
        /\ queryEffects(<<>>)

\* mutant: a commit never removes, it selects again
commitSelection_alwaysAdds(id) ==
    LET isRemoving == FALSE
        next == <<id>> \o selectedIds
    IN  /\ selectedIds' = next
        /\ IF isAsync
           THEN /\ selectedItemsCache' = commitCache(id, isRemoving)
                /\ viaCommit' =
                      IF id \in Range(asyncItems) THEN viaCommit \cup {id}
                      ELSE viaCommit
           ELSE UNCHANGED <<selectedItemsCache, viaCommit>>
        /\ queryEffects(<<>>)

\* mutant: a commit leaves the search text as it is
commitSelection_keepsQuery(id) ==
    LET isRemoving == id \in Range(selectedIds)
        next == IF isRemoving THEN without(selectedIds, id)
                ELSE <<id>> \o without(selectedIds, id)
    IN  /\ selectedIds' = next
        /\ IF isAsync
           THEN /\ selectedItemsCache' = commitCache(id, isRemoving)
                /\ viaCommit' =
                      IF isRemoving THEN viaCommit \ {id}
                      ELSE IF id \in Range(asyncItems) THEN viaCommit \cup {id}
                      ELSE viaCommit
           ELSE UNCHANGED <<selectedItemsCache, viaCommit>>
        /\ queryEffects(query)

\* useSelection.commitSelection(id): onChange(next), the cache update of
\* server mode, setQuery('')
commitSelection(id) ==
    LET isRemoving == id \in Range(selectedIds)
        next == IF isRemoving THEN without(selectedIds, id)
                ELSE <<id>> \o without(selectedIds, id)
    IN  /\ selectedIds' = next
        /\ IF isAsync
           THEN /\ selectedItemsCache' = commitCache(id, isRemoving)
                /\ viaCommit' =
                      IF isRemoving THEN viaCommit \ {id}
                      ELSE IF id \in Range(asyncItems) THEN viaCommit \cup {id}
                      ELSE viaCommit
           ELSE UNCHANGED <<selectedItemsCache, viaCommit>>
        /\ queryEffects(<<>>)

\* what a commit leaves alone, apart from the cursor and the dropdown
commitFrame ==
    UNCHANGED <<mode, asyncItems, loading, hasMore, error, pageRef, loadingRef,
                initialLoadDoneRef, lastPageLen, call>>

\* OptionRow.onMouseDown on the row at 0-based index i of the open listbox
optionMouseDown(i) ==
    /\ open
    /\ i \in 0..(Len(orderedItems) - 1)
    /\ commitSelection(orderedItems[i + 1])
    /\ activeIndex' = activeAfter(open, <<>>, activeIndex)
    /\ UNCHANGED open
    /\ commitFrame

\* Token.onClick, and Backspace/Delete on a focused token (handleTokenKeyDown);
\* a token is rendered for a selected id whose item resolves
tokenRemove(id) ==
    /\ id \in Range(selectedIds)
    /\ getSelectedItem(id)
    /\ commitSelection(id)
    /\ activeIndex' = activeAfter(open, <<>>, activeIndex)
    /\ UNCHANGED open
    /\ commitFrame

\* MultiSelect.clearAll; focusing the input opens the dropdown when the input
\* did not have the focus already
clearAll ==
    /\ Len(selectedIds) > 0
    /\ selectedIds' = <<>>
    /\ selectedItemsCache' = IF isAsync THEN {} ELSE selectedItemsCache
    /\ viaCommit' = {}
    /\ \E open2 \in {open, TRUE} :
          /\ open' = open2
          /\ activeIndex' = activeAfter(open2, query, activeIndex)
    /\ UNCHANGED <<mode, query, asyncItems, loading, hasMore, error, pageRef,
                   queryRef, loadingRef, initialLoadDoneRef, abortControllerRef,
                   lastQueryRef, debounceTimerRef, timers, requests, lastPageLen, call>>

\* ----------------------------------------------------------------- keyboard
Keys == {"ArrowDown", "ArrowUp", "Home", "End", "Enter", " ", "Escape", "Backspace"}

Min(a, b) == IF a < b THEN a ELSE b
Max(a, b) == IF a > b THEN a ELSE b

\* a key that only moves the cursor to idx
moveTo(idx) ==
    /\ activeIndex' = idx
    /\ UNCHANGED <<mode, open, query, selectedIds, asyncItems, loading, hasMore,
                   error, selectedItemsCache, pageRef, queryRef, loadingRef,
                   initialLoadDoneRef, abortControllerRef, lastQueryRef,
                   debounceTimerRef, timers, requests, lastPageLen, viaCommit, call>>

\* mutant: closing the dropdown drops the selection
setOpen_dropsSelection(open2) ==
    /\ open' = open2
    /\ activeIndex' = activeAfter(open2, query, activeIndex)
    /\ selectedIds' = IF open2 THEN selectedIds ELSE <<>>
    /\ UNCHANGED <<mode, query, asyncItems, loading, hasMore,
                   error, selectedItemsCache, pageRef, queryRef, loadingRef,
                   initialLoadDoneRef, abortControllerRef, lastQueryRef,
                   debounceTimerRef, timers, requests, lastPageLen, viaCommit, call>>

\* a key that only opens or closes the dropdown
setOpen(open2) ==
    /\ open' = open2
    /\ activeIndex' = activeAfter(open2, query, activeIndex)
    /\ UNCHANGED <<mode, query, selectedIds, asyncItems, loading, hasMore,
                   error, selectedItemsCache, pageRef, queryRef, loadingRef,
                   initialLoadDoneRef, abortControllerRef, lastQueryRef,
                   debounceTimerRef, timers, requests, lastPageLen, viaCommit, call>>

\* mutant: the confirm key commits the first row, wherever the cursor is
commitActive_firstRow ==
    IF Len(orderedItems) > 0
    THEN /\ commitSelection(orderedItems[1])
         /\ activeIndex' = activeAfter(open, <<>>, activeIndex)
         /\ UNCHANGED open
         /\ commitFrame
    ELSE UNCHANGED vars

\* Enter / Space: commit orderedItems[activeIndex] if there is one
commitActive ==
    IF activeIndex >= 0 /\ activeIndex < Len(orderedItems)
    THEN /\ commitSelection(orderedItems[activeIndex + 1])
         /\ activeIndex' = activeAfter(open, <<>>, activeIndex)
         /\ UNCHANGED open
         /\ commitFrame
    ELSE UNCHANGED vars

\* mutant: the closed dropdown is not told apart, Enter commits at once
onKeyDown_closedEnterCommits(key) ==
    IF ~open /\ key # "Enter"
    THEN IF key = "ArrowDown" THEN setOpen(TRUE) ELSE UNCHANGED vars
    ELSE CASE key = "ArrowDown" -> moveTo(Min(activeIndex + 1, Len(orderedItems) - 1))
           [] key = "ArrowUp"   -> moveTo(Max(activeIndex - 1, 0))
           [] key = "Home"      -> moveTo(0)
           [] key = "End"       -> moveTo(Max(0, Len(orderedItems) - 1))
           [] key = "Enter"     -> commitActive
           [] key = " "         -> IF isBlank(query) THEN commitActive ELSE UNCHANGED vars
           [] key = "Escape"    -> setOpen(FALSE)
           [] key = "Backspace" ->
                IF query = <<>> /\ Len(selectedIds) > 0
                THEN LET last == selectedIds[Len(selectedIds)]
                     IN  /\ selectedIds' = slice(selectedIds, 0, Len(selectedIds) - 1)
                         /\ viaCommit' = viaCommit \ {last}
                         /\ UNCHANGED <<mode, open, query, activeIndex, asyncItems,
                                 loading, hasMore, error, selectedItemsCache, pageRef,
                                 queryRef, loadingRef, initialLoadDoneRef,
                                 abortControllerRef, lastQueryRef, debounceTimerRef,
                                 timers, requests, lastPageLen, call>>
                ELSE UNCHANGED vars

\* useKeyboardNavigation.onKeyDown
onKeyDown(key) ==
    IF ~open
    THEN IF key \in {"ArrowDown", "Enter"} THEN setOpen(TRUE) ELSE UNCHANGED vars
    ELSE CASE key = "ArrowDown" -> moveTo(Min(activeIndex + 1, Len(orderedItems) - 1))
           [] key = "ArrowUp"   -> moveTo(Max(activeIndex - 1, 0))
           [] key = "Home"      -> moveTo(0)
           [] key = "End"       -> moveTo(Max(0, Len(orderedItems) - 1))
           [] key = "Enter"     -> commitActive
           [] key = " "         -> IF isBlank(query) THEN commitActive ELSE UNCHANGED vars
           [] key = "Escape"    -> setOpen(FALSE)
           [] key = "Backspace" ->
                IF query = <<>> /\ Len(selectedIds) > 0
                THEN LET last == selectedIds[Len(selectedIds)]
                     IN  /\ selectedIds' = slice(selectedIds, 0, Len(selectedIds) - 1)
                         /\ viaCommit' = viaCommit \ {last}
                         /\ UNCHANGED <<mode, open, query, activeIndex, asyncItems,
                                 loading, hasMore, error, selectedItemsCache, pageRef,
                                 queryRef, loadingRef, initialLoadDoneRef,
                                 abortControllerRef, lastQueryRef, debounceTimerRef,
                                 timers, requests, lastPageLen, call>>
                ELSE UNCHANGED vars

\* the input's onFocus and the token area's onClick: setOpen(true)
inputFocus == ~open /\ setOpen(TRUE)

\* useClickOutside: a mousedown outside the combobox while it is open
clickOutside == open /\ setOpen(FALSE)

\* OptionRow.onMouseEnter on the row at 0-based index i: setActiveIndex(i)
optionMouseEnter(i) ==
    /\ open
    /\ i \in 0..(Len(orderedItems) - 1)
    /\ moveTo(i)

\* ---------------------------------------------------------------- the system
Next ==
    \/ \E q \in Queries : setQuery(q)
    \/ \E key \in Keys : onKeyDown(key)
    \/ inputFocus
    \/ clickOutside
    \/ \E i \in 0..(Len(mockItems) - 1) : optionMouseEnter(i)
    \/ \E i \in 0..(Len(mockItems) - 1) : optionMouseDown(i)
    \/ \E id \in Ids : tokenRemove(id)
    \/ clearAll
    \/ \E t \in timers : TimerFire(t)
    \/ \E r \in requests, ok \in BOOLEAN : Resolve(r, ok)
    \/ \E dist \in ScrollDistances : handleScroll(dist)
    \/ retry

Spec == Init /\ [][Next]_vars

TypeOK ==
    /\ mode \in {"sync", "async"}
    /\ open \in BOOLEAN
    /\ query \in Queries
    /\ activeIndex \in -1..Len(mockItems)
    /\ Cardinality(timers) <= 1
    /\ loadingRef = loading
    /\ queryRef = query

\* ------------------------------------------- the ordering functions alone
\* the subsequences of s
RECURSIVE SubSeqs(_)
SubSeqs(s) ==
    IF s = <<>> THEN {<<>>}
    ELSE LET rest == SubSeqs(Tail(s))
         IN  rest \cup {<<Head(s)>> \o r : r \in rest}

\* items arguments: the lists drawn from the test file's mockItems
ItemLists == SubSeqs(mockItems)

\* selectedIds and mruOrder arguments: id lists without repetition
IdLists ==
    {s \in UNION {[1..n -> Ids] : n \in 0..MaxSelLen} :
        \A i, j \in 1..Len(s) : i # j => s[i] # s[j]}

\* query arguments
OrderQueries == { <<>>, <<"a">>, <<"a", "l">> }

\* a mounted local-mode widget and the arguments of one call
InitOrder ==
    /\ mode = "sync"
    /\ open = FALSE
    /\ query = <<>>
    /\ selectedIds = <<>>
    /\ activeIndex = 0
    /\ asyncItems = <<>>
    /\ loading = FALSE
    /\ hasMore = TRUE
    /\ error = FALSE
    /\ selectedItemsCache = {}
    /\ pageRef = 0
    /\ queryRef = <<>>
    /\ loadingRef = FALSE
    /\ initialLoadDoneRef = FALSE
    /\ abortControllerRef = 0
    /\ lastQueryRef = <<>>
    /\ debounceTimerRef = 0
    /\ timers = {}
    /\ requests = {}
    /\ lastPageLen = -1
    /\ viaCommit = {}
    /\ call \in [op : {"args"}, items : ItemLists, selectedIds : IdLists,
                 mruOrder : IdLists, query : OrderQueries, result : {<<>>}]

\* everything but the call record
widgetVars == <<mode, open, query, selectedIds, activeIndex,
                asyncItems, loading, hasMore, error, selectedItemsCache,
                pageRef, queryRef, loadingRef, initialLoadDoneRef,
                abortControllerRef, lastQueryRef, debounceTimerRef,
                timers, requests, lastPageLen, viaCommit>>

\* orderItemsSync(items, selectedIds, query) is called: the variant without an
\* mruOrder parameter (a further argument is ignored)
callOrderItemsSync ==
    /\ call.op = "args"
    /\ call' = [call EXCEPT !.op = "orderItemsSync",
                            !.result = orderItemsSync(call.items, call.selectedIds,
                                                      call.query)]
    /\ UNCHANGED widgetVars

\* orderItemsSync(items, selectedIds, query, mruOrder) is called
callOrderItemsSyncMru ==
    /\ call.op = "args"
    /\ call' = [call EXCEPT !.op = "orderItemsSyncMru",
                            !.result = orderItemsSyncMru(call.items, call.selectedIds,
                                                    call.query, call.mruOrder)]
    /\ UNCHANGED widgetVars

NextOrder ==
    \/ callOrderItemsSync
    \/ callOrderItemsSyncMru

SpecOrder == InitOrder /\ [][NextOrder]_vars

\* --------------------------------------------- the fuzzy functions alone
\* longest haystack and needle of a fuzzyScore call
MaxHaystackLen == 3
MaxNeedleLen == 2
\* largest limit of a fuzzyFilter call
MaxLimit == 5

\* the code units of the texts: a letter in both cases, a second letter, a
\* word separator, and a letter without a case round trip
Chars == {"a", "A", "l", " ", DotlessI}

\* the texts of at most n code units
Texts(n) == UNION {[1..k -> Chars] : k \in 0..n}

\* a mounted local-mode widget and the arguments of one call of fuzzyScore or
\* of fuzzyFilter (over the test file's items)
InitFuzzy ==
    /\ mode = "sync"
    /\ open = FALSE
    /\ query = <<>>
    /\ selectedIds = <<>>
    /\ activeIndex = 0
    /\ asyncItems = <<>>
    /\ loading = FALSE
    /\ hasMore = TRUE
    /\ error = FALSE
    /\ selectedItemsCache = {}
    /\ pageRef = 0
    /\ queryRef = <<>>
    /\ loadingRef = FALSE
    /\ initialLoadDoneRef = FALSE
    /\ abortControllerRef = 0
    /\ lastQueryRef = <<>>
    /\ debounceTimerRef = 0
    /\ timers = {}
    /\ requests = {}
    /\ lastPageLen = -1
    /\ viaCommit = {}
    /\ call \in [op : {"args"}, haystack : Texts(MaxHaystackLen),
                 needle : Texts(MaxNeedleLen), result : {0}]
            \cup [op : {"args"}, items : ItemLists, query : OrderQueries,
                  limit : {NoLimit} \cup 0..MaxLimit, result : {<<>>}]

\* fuzzyScore(haystack, needle) is called
callFuzzyScore ==
    /\ call.op = "args"
    /\ "haystack" \in DOMAIN call
    /\ call' = [call EXCEPT !.op = "fuzzyScore",
                            !.result = fuzzyScore(call.haystack, call.needle)]
    /\ UNCHANGED widgetVars

\* fuzzyFilter(items, i => i.label, query, limit) is called
callFuzzyFilter ==
    /\ call.op = "args"
    /\ "items" \in DOMAIN call
    /\ call' = [call EXCEPT !.op = "fuzzyFilter",
                            !.result = fuzzyFilterLimit(call.items, call.query,
                                                        call.limit)]
    /\ UNCHANGED widgetVars

NextFuzzy ==
    \/ callFuzzyScore
    \/ callFuzzyFilter

SpecFuzzy == InitFuzzy /\ [][NextFuzzy]_vars

\* ------------------------------------------------ the virtual list window
\* Math.floor(a / b) and Math.ceil(a / b) for b > 0
floorDiv(a, b) == a \div b
ceilDiv(a, b) == (a + b - 1) \div b

\* mutant: the first row is rounded up
computeWindow_startRoundedUp(scrollTop, height, rowHeight, overscan, total) ==
    LET startIndex == Max(0, ceilDiv(scrollTop, rowHeight) - overscan)
        endIndex == Min(total - 1, ceilDiv(scrollTop + height, rowHeight) + overscan)
    IN  [startIndex |-> startIndex, endIndex |-> endIndex,
         offsetY |-> startIndex * rowHeight, contentHeight |-> total * rowHeight]

\* mutant: the viewport height is subtracted
computeWindow_heightSubtracted(scrollTop, height, rowHeight, overscan, total) ==
    LET startIndex == Max(0, floorDiv(scrollTop, rowHeight) - overscan)
        endIndex == Min(total - 1, ceilDiv(scrollTop - height, rowHeight) + overscan)
    IN  [startIndex |-> startIndex, endIndex |-> endIndex,
         offsetY |-> startIndex * rowHeight, contentHeight |-> total * rowHeight]

\* mutant: two more rows are rendered below
computeWindow_twoRowsMore(scrollTop, height, rowHeight, overscan, total) ==
    LET startIndex == Max(0, floorDiv(scrollTop, rowHeight) - overscan)
        endIndex == Min(total - 1,
                        ceilDiv(scrollTop + height, rowHeight) + overscan + 2)
    IN  [startIndex |-> startIndex, endIndex |-> endIndex,
         offsetY |-> startIndex * rowHeight, contentHeight |-> total * rowHeight]

\* VirtualList's render: the window of rows and the sizes of the spacer
computeWindow(scrollTop, height, rowHeight, overscan, total) ==
    LET startIndex == Max(0, floorDiv(scrollTop, rowHeight) - overscan)
        endIndex == Min(total - 1, ceilDiv(scrollTop + height, rowHeight) + overscan)
    IN  [startIndex |-> startIndex, endIndex |-> endIndex,
         offsetY |-> startIndex * rowHeight, contentHeight |-> total * rowHeight]

\* items.slice(startIndex, endIndex + 1): the 0-based indices that are rendered
visibleRows(w, total) ==
    {r \in 0..(total - 1) : w.startIndex <= r /\ r < w.endIndex + 1}

\* the largest arguments of a render
MaxScrollTop == 8
MaxHeight == 4
MaxRowHeight == 2
MaxOverscan == 1
MaxTotal == 3

\* a mounted local-mode widget and the arguments of one render of VirtualList
InitWindow ==
    /\ mode = "sync"
    /\ open = FALSE
    /\ query = <<>>
    /\ selectedIds = <<>>
    /\ activeIndex = 0
    /\ asyncItems = <<>>
    /\ loading = FALSE
    /\ hasMore = TRUE
    /\ error = FALSE
    /\ selectedItemsCache = {}
    /\ pageRef = 0
    /\ queryRef = <<>>
    /\ loadingRef = FALSE
    /\ initialLoadDoneRef = FALSE
    /\ abortControllerRef = 0
    /\ lastQueryRef = <<>>
    /\ debounceTimerRef = 0
    /\ timers = {}
    /\ requests = {}
    /\ lastPageLen = -1
    /\ viaCommit = {}
    /\ call \in [op : {"args"}, scrollTop : 0..MaxScrollTop, height : 0..MaxHeight,
                 rowHeight : 1..MaxRowHeight, overscan : 0..MaxOverscan,
                 total : 0..MaxTotal, result : {0}]

\* VirtualList renders
renderVirtualList ==
    /\ call.op = "args"
    /\ call' = [call EXCEPT !.op = "window",
                            !.result = computeWindow(call.scrollTop, call.height,
                                          call.rowHeight, call.overscan, call.total)]
    /\ UNCHANGED widgetVars

NextWindow == renderVirtualList

SpecWindow == InitWindow /\ [][NextWindow]_vars

\* ------------------------------------------------------------ construction
\* the widget does not exist: before its first render, or after that render
\* threw
unmounted ==
    /\ mode = "unmounted"
    /\ open = FALSE
    /\ query = <<>>
    /\ selectedIds = <<>>
    /\ activeIndex = 0
    /\ asyncItems = <<>>
    /\ loading = FALSE
    /\ hasMore = TRUE
    /\ error = FALSE
    /\ selectedItemsCache = {}
    /\ pageRef = 0
    /\ queryRef = <<>>
    /\ loadingRef = FALSE
    /\ initialLoadDoneRef = FALSE
    /\ abortControllerRef = 0
    /\ lastQueryRef = <<>>
    /\ debounceTimerRef = 0
    /\ timers = {}
    /\ requests = {}
    /\ lastPageLen = -1
    /\ viaCommit = {}

\* the props of the element that is about to be rendered: whether items and
\* fetchItems are passed, and selectedIds
InitConstruct ==
    /\ unmounted
    /\ call \in [op : {"props"}, items : BOOLEAN, fetchItems : BOOLEAN,
                 selectedIds : InitialSelections]

\* the hooks of the first render and the mount effects, with or without the
\* loader running
mount(isAsync0) ==
    /\ open' = FALSE
    /\ query' = <<>>
    /\ selectedIds' = call.selectedIds
    /\ activeIndex' = 0
    /\ asyncItems' = <<>>
    /\ hasMore' = TRUE
    /\ error' = FALSE
    /\ selectedItemsCache' = {}
    /\ pageRef' = 0
    /\ queryRef' = <<>>
    /\ lastQueryRef' = <<>>
    /\ initialLoadDoneRef' = FALSE
    /\ lastPageLen' = -1
    /\ viaCommit' = {}
    /\ call' = [op |-> "none"]
    /\ IF isAsync0
       THEN /\ loading' = TRUE
            /\ loadingRef' = TRUE
            /\ abortControllerRef' = 1
            /\ requests' = {[id |-> 1, query |-> <<>>, page |-> 0, reset |-> TRUE,
                             aborted |-> FALSE, superseded |-> FALSE,
                             origin |-> "mount"]}
            /\ timers' = {[id |-> 1, delay |-> 0, q |-> <<>>, replacedPending |-> FALSE]}
            /\ debounceTimerRef' = 1
       ELSE /\ loading' = FALSE
            /\ loadingRef' = FALSE
            /\ abortControllerRef' = 0
            /\ requests' = {}
            /\ timers' = {}
            /\ debounceTimerRef' = 0

\* mutant: the props are not checked, the widget mounts without a source
MultiSelect_unchecked ==
    /\ call.op = "props"
    /\ mode' = IF call.items
               THEN (IF call.fetchItems THEN "both" ELSE "sync")
               ELSE "async"
    /\ mount(call.fetchItems)

\* MultiSelect, first render: throws when neither items nor fetchItems is
\* passed, before any hook has run; mounts otherwise
MultiSelect ==
    /\ call.op = "props"
    /\ IF ~call.fetchItems /\ ~call.items
       THEN /\ call' = [call EXCEPT !.op = "threw"]
            /\ UNCHANGED widgetVars
       ELSE /\ mode' = IF call.items
                       THEN (IF call.fetchItems THEN "both" ELSE "sync")
                       ELSE "async"
            /\ mount(call.fetchItems)

\* a mounted widget driven from the keyboard: the key handler, the focus
\* handlers, and the timeouts and fetches that settle
NextMounted ==
    /\ mode # "unmounted"
    /\ \/ \E key \in Keys : onKeyDown(key)
       \/ inputFocus
       \/ clickOutside
       \/ \E t \in timers : TimerFire(t)
       \/ \E r \in requests, ok \in BOOLEAN : Resolve(r, ok)

NextConstruct ==
    \/ MultiSelect
    \/ NextMounted

SpecConstruct == InitConstruct /\ [][NextConstruct]_vars

\* ---------------------------------------- a search that narrows the rows
\* search texts: none, and one that a single label of the first rows contains
NarrowQueries == { <<>>, <<"l">> }

\* the handlers, the input taking the texts above
NextNarrowing ==
    \/ \E q \in NarrowQueries : setQuery(q)
    \/ \E key \in Keys : onKeyDown(key)
    \/ inputFocus
    \/ clickOutside
    \/ \E i \in 0..(Len(mockItems) - 1) : optionMouseEnter(i)
    \/ \E i \in 0..(Len(mockItems) - 1) : optionMouseDown(i)
    \/ \E id \in Ids : tokenRemove(id)
    \/ clearAll
    \/ \E t \in timers : TimerFire(t)
    \/ \E r \in requests, ok \in BOOLEAN : Resolve(r, ok)
    \/ \E dist \in ScrollDistances : handleScroll(dist)
    \/ retry

SpecNarrowing == Init /\ [][NextNarrowing]_vars

\* ------------------------------------------- typing blanks, in local mode
\* search texts with a blank: a blank alone, and a blank after a letter
TypedQueries == { <<>>, <<" ">>, <<"a">>, <<"a", " ">> }

\* the widget mounted with the items prop
InitTyping == mode = "sync" /\ Init

\* the handlers of local mode, the input taking the texts above
NextTyping ==
    \/ \E q \in TypedQueries : setQuery(q)
    \/ \E key \in Keys : onKeyDown(key)
    \/ inputFocus
    \/ clickOutside
    \/ \E i \in 0..(Len(mockItems) - 1) : optionMouseEnter(i)
    \/ \E i \in 0..(Len(mockItems) - 1) : optionMouseDown(i)
    \/ \E id \in Ids : tokenRemove(id)
    \/ clearAll

SpecTyping == InitTyping /\ [][NextTyping]_vars

\* =================================================================== claims
\* ids of the requests in flight
ids(rs) == {r.id : r \in rs}

\* C1: in server mode, the resolution (success or failure) of a request that
\* was superseded (the query changed after it was issued, or a newer load was
\* started) or cancelled changes none of the item buffer, the page counter,
\* hasMore, loading, error and the selected-item cache; a cancelled request
\* never produces an error state.
C1_StaleResolutionIgnored ==
    [][\A r \in requests, ok \in BOOLEAN :
          ((r.superseded \/ r.aborted) /\ Resolve(r, ok))
             => UNCHANGED <<asyncItems, pageRef, hasMore, loading, error,
                            selectedItemsCache>>]_vars

\* a cancelled request has settled: loading is still set although no request
\* is left in flight
C1_Witness ==
    isAsync /\ loading /\ requests = {} /\ ~error /\ query # <<>>

\* ---- the item source answers every request, the timer always fires
\* Next without a rejected fetch (and so without retry): the runs in which the
\* item source answers every request with a page
NextAnswered ==
    \/ \E q \in Queries : setQuery(q)
    \/ \E key \in Keys : onKeyDown(key)
    \/ inputFocus
    \/ clickOutside
    \/ \E i \in 0..(Len(mockItems) - 1) : optionMouseEnter(i)
    \/ \E i \in 0..(Len(mockItems) - 1) : optionMouseDown(i)
    \/ \E id \in Ids : tokenRemove(id)
    \/ clearAll
    \/ \E t \in timers : TimerFire(t)
    \/ \E r \in requests : Resolve(r, TRUE)
    \/ \E dist \in ScrollDistances : handleScroll(dist)

\* a pending timeout fires and a pending promise settles
FairSpec ==
    /\ Init
    /\ [][NextAnswered]_vars
    /\ WF_vars(\E t \in timers : TimerFire(t))
    /\ WF_vars(\E r \in requests : Resolve(r, TRUE))

\* the buffer starts with the first page of q
firstPageLoaded(q) ==
    LET page0 == fetchItems(q, 0)
    IN  /\ ~loading
        /\ Len(asyncItems) >= Len(page0)
        /\ SubSeq(asyncItems, 1, Len(page0)) = page0

\* C2: in server mode, after the last query change of a run in which the item
\* source answers every request, the loader reaches (and keeps coming back to)
\* loading = FALSE with the latest query's first page in the buffer.
C2_LatestQueryLoaded ==
    \A q \in Queries :
        (<>[](isAsync /\ query = q)) => []<>firstPageLoaded(q)

\* C3: a query change made while a debounce timer is pending cancels that timer
\* and issues no fetch, so at most one timer is pending and it belongs to the
\* latest query; when the timer fires on an idle loader exactly one fetch is
\* issued, for page 0 of the latest query (idle, "a", then "ab" before the
\* timer fires: one fetch, for "ab").
C3_DebounceCancelsPending ==
    [][/\ Cardinality(timers') <= 1
       /\ \A t \in timers' : t.q = query'
       /\ (query' # query) => ids(requests') = ids(requests)
       /\ \A t \in timers :
             (TimerFire(t) /\ ~loading) =>
                 /\ t.q = query
                 /\ \E r \in requests' :
                       /\ r.id \notin ids(requests)
                       /\ ids(requests') = ids(requests) \cup {r.id}
                       /\ r.query = query /\ r.page = 0 /\ r.reset]_vars

\* on an idle loader the timer of "ab" has replaced a timer that was still
\* pending: one timer is left, no fetch was issued for the replaced one
C3_Witness ==
    /\ isAsync
    /\ query = <<"a", "b">>
    /\ ~loading /\ requests = {}
    /\ \E t \in timers :
          timers = {t} /\ t.replacedPending /\ t.q = <<"a", "b">>

\* C4: whenever the dropdown is open and the ordered view is non-empty,
\* 0 <= activeIndex <= Len(view) - 1, in local and in server mode.
C4_ActiveIndexInRange ==
    (open /\ Len(orderedItems) > 0) =>
        (0 <= activeIndex /\ activeIndex <= Len(orderedItems) - 1)

\* C5: in server mode an id selected by a commit while its item was in the
\* buffer stays resolvable (cache or buffer) for as long as it stays selected,
\* across query changes, resets, page loads and fetch failures; the settling
\* of a request never removes an entry from the cache.
C5_SelectedStaysResolvable ==
    /\ [](\A id \in viaCommit : id \in Range(selectedIds) /\ getSelectedItem(id))
    /\ [][(\E r \in requests, ok \in BOOLEAN : Resolve(r, ok))
             => selectedItemsCache \subseteq selectedItemsCache']_vars

\* an id selected by a commit is no longer in the buffer, which a later page
\* load has replaced, and resolves through the cache
C5_Witness ==
    /\ isAsync
    /\ lastPageLen # -1
    /\ \E id \in viaCommit :
          id \notin Range(asyncItems) /\ id \in selectedItemsCache

\* the request a step has put in flight: the ids in flight grow by exactly r
issued(r) ==
    /\ r \in requests'
    /\ r.id \notin ids(requests)
    /\ ids(requests') = ids(requests) \cup {r.id}
    /\ ~r.aborted

\* C6: after every page that is applied to the buffer, hasMore equals
\* (number of items of that page >= pageSize); between resets hasMore is false
\* exactly when the last applied page had fewer than pageSize items.
C6_HasMoreFromShortPage ==
    /\ [](isAsync => (~hasMore <=> (lastPageLen # -1 /\ lastPageLen < pageSize)))
    /\ [][\A r \in requests :
             (Resolve(r, TRUE) /\ ~r.aborted) =>
                 LET applied == Len(asyncItems')
                                  - (IF r.reset THEN 0 ELSE Len(asyncItems))
                 IN  hasMore' = (applied >= pageSize)]_vars

\* a full page, then a short one: the buffer holds pageSize items and the
\* items of the short page, and hasMore is off
C6_Witness ==
    /\ isAsync
    /\ lastPageLen > 0 /\ lastPageLen < pageSize
    /\ Len(asyncItems) = pageSize + lastPageLen
    /\ ~hasMore

\* C7: when a fetch that was not cancelled fails, the loader records the error,
\* sets loading to false, does not advance the page counter and leaves the
\* buffer as it was, so the items of earlier pages stay in the ordered view.
C7_FailureKeepsBuffer ==
    [][\A r \in requests :
          (Resolve(r, FALSE) /\ ~r.aborted) =>
              /\ error' /\ ~loading'
              /\ pageRef' = pageRef
              /\ asyncItems' = asyncItems
              /\ hasMore' = hasMore
              /\ orderedItems' = orderedItems]_vars

\* a load-more has failed: error state over a buffer that still holds a page
C7_Witness ==
    /\ isAsync
    /\ error /\ ~loading
    /\ Len(asyncItems) > 0 /\ pageRef > 0
    /\ Range(asyncItems) \subseteq Range(orderedItems)

\* C8: from an error state, retry clears the error and does reset-and-load for
\* the query current at the retry: the buffer is emptied, the page counter is
\* 0, hasMore is true, loading is true and a page-0 fetch for that query is
\* issued.
C8_RetryResetsAndLoads ==
    [][retry =>
          /\ ~error'
          /\ asyncItems' = <<>>
          /\ pageRef' = 0
          /\ hasMore'
          /\ loading'
          /\ \E r \in requests' :
                issued(r) /\ r.query = query /\ r.page = 0 /\ r.reset]_vars

\* the retry's fetch is in flight for a query typed after the failure
C8_Witness ==
    /\ isAsync
    /\ loading /\ ~error
    /\ \E r \in requests :
          r.origin = "retry" /\ ~r.aborted /\ r.query = query /\ query # <<>>

\* C9: a scroll event starts a load-more if and only if the scroll position is
\* within the threshold of the content end, no load is in progress, hasMore is
\* true and there is no error; in every other case it issues no fetch and
\* leaves buffer, page counter, hasMore, loading and error unchanged.
C9_ScrollTrigger ==
    [][\A dist \in ScrollDistances :
          handleScroll(dist) =>
              IF dist < threshold /\ ~loading /\ hasMore /\ ~error
              THEN /\ loading'
                   /\ asyncItems' = asyncItems
                   /\ \E r \in requests' :
                         issued(r) /\ r.page = pageRef /\ r.query = query
                                   /\ ~r.reset
              ELSE UNCHANGED <<asyncItems, pageRef, hasMore, loading, error,
                               requests>>]_vars

\* a scroll near the end has put the fetch of the next page in flight
C9_Witness ==
    /\ isAsync
    /\ loading
    /\ Len(asyncItems) = pageSize
    /\ \E r \in requests :
          r.origin = "scroll" /\ ~r.aborted /\ r.page = 1 /\ ~r.reset

\* position of id in the MRU order, Infinity when it has none
rank(mru, id) == IF indexOf(mru, id) >= 0 THEN indexOf(mru, id) ELSE Infinity

\* view lists the selected items of `items` first, by their position in mru,
\* those without a position last and in the order of `items`
pinned(view, items, sel, mru) ==
    LET S == Range(sel) \cap Range(items)
        k == Cardinality(S)
    IN  /\ Len(view) >= k
        /\ {view[i] : i \in 1..k} = S
        /\ \A i \in (k + 1)..Len(view) : view[i] \notin Range(sel)
        /\ \A i, j \in 1..k :
              i < j =>
                 \/ rank(mru, view[i]) < rank(mru, view[j])
                 \/ /\ rank(mru, view[i]) = Infinity
                    /\ rank(mru, view[j]) = Infinity
                    /\ indexOf(items, view[i]) < indexOf(items, view[j])

\* the selected items of a view, in the view's order
selectedPrefix(view, sel) == SelectSeq(view, LAMBDA id : id \in Range(sel))

noDuplicates(s) == \A i, j \in 1..Len(s) : i # j => s[i] # s[j]

\* the elements of s that are not selected, in the order of s
unselectedPart(s, sel) == SelectSeq(s, LAMBDA id : id \notin Range(sel))

\* C11: with an empty query the ordered view has the length of the input item
\* list and is the selected items followed by all unselected items in input
\* order, with no id added, dropped or duplicated (items 1..4 with selection
\* [2,4] give [2,4,1,3]).
C11_EmptyQueryKeepsAll ==
    (call.op \in {"orderItemsSync", "orderItemsSyncMru"} /\ call.query = <<>>) =>
        /\ Len(call.result) = Len(call.items)
        /\ Range(call.result) = Range(call.items)
        /\ noDuplicates(call.result)
        /\ call.result = selectedPrefix(call.result, call.selectedIds)
                           \o unselectedPart(call.items, call.selectedIds)

\* the test's call: mockItems with selection [2,4] and no query give [2,4,1,3]
C11_Witness ==
    /\ call.op = "orderItemsSync"
    /\ call.items = mockItems
    /\ call.selectedIds = <<2, 4>>
    /\ call.query = <<>>
    /\ call.result = <<2, 4, 1, 3>>

\* C12: with a non-empty query the ordered view is the selected items, not
\* filtered by the query, followed by exactly the unselected items whose label
\* fuzzy-matches the query, in ascending score order, equal scores in input
\* order (mockItems, nothing selected, "al": [1]).
C12_QueryFiltersUnselected ==
    (call.op \in {"orderItemsSync", "orderItemsSyncMru"} /\ call.query # <<>>) =>
        LET sel == call.selectedIds
            head == selectedPrefix(call.result, sel)
            rest == unselectedPart(call.result, sel)
            sc(id) == fuzzyScore(Label(id), call.query)
        IN  /\ call.result = head \o rest
            /\ Range(head) = Range(call.items) \cap Range(sel)
            /\ Len(head) = Cardinality(Range(head))
            /\ Range(rest) = {id \in Range(call.items) \ Range(sel) : sc(id) # NoMatch}
            /\ noDuplicates(rest)
            /\ \A i, j \in 1..Len(rest) :
                  i < j =>
                     \/ sc(rest[i]) < sc(rest[j])
                     \/ /\ sc(rest[i]) = sc(rest[j])
                        /\ indexOf(call.items, rest[i]) < indexOf(call.items, rest[j])

\* query "al" over mockItems with Beta selected: Beta does not match and stays,
\* Alpha is the only unselected match
C12_Witness ==
    /\ call.op = "orderItemsSync"
    /\ call.items = mockItems
    /\ call.query = <<"a", "l">>
    /\ call.selectedIds = <<2>>
    /\ fuzzyScore(Label(2), call.query) = NoMatch
    /\ call.result = <<2, 1>>

\* the selection after a commit of id
toggled(sel, id) ==
    IF id \in Range(sel) THEN SelectSeq(sel, LAMBDA x : x # id) ELSE <<id>> \o sel

\* the cursor is on a row of the ordered view
onRow == activeIndex >= 0 /\ activeIndex < Len(orderedItems)

\* what every commit path leaves alone or sets: the frame of a commit, the
\* dropdown, and the cursor as the reset effect leaves it
commitShape ==
    /\ UNCHANGED open
    /\ activeIndex' = activeAfter(open, <<>>, activeIndex)
    /\ commitFrame

\* the step is a commit: a mouse down on a row, the confirm key or the space
\* key with the cursor on a row, or the removal of a token
commitStep ==
    /\ commitShape
    /\ \/ \E i \in 0..(Len(mockItems) - 1) : optionMouseDown(i)
       \/ open /\ onRow /\ (onKeyDown("Enter") \/ (isBlank(query) /\ onKeyDown(" ")))
       \/ \E id \in Ids : tokenRemove(id)

\* the items the ordered view is computed from
knownItems == IF isSync THEN mockItems ELSE asyncItems

\* C13: commit(id) toggles membership in the selected-id sequence: an
\* unselected id is inserted at the front, a selected id is removed, and the
\* relative order of the other selected ids is unchanged; the ordered view
\* starts with the selected ids it knows, in the order of the sequence
\* (committing 1 and then 2 from the empty selection: [2,1], view [2,1,...]).
C13_CommitToggles ==
    /\ [][commitShape =>
            LET view == orderedItems
            IN  /\ \A i \in 0..(Len(view) - 1) :
                      optionMouseDown(i) =>
                          selectedIds' = toggled(selectedIds, view[i + 1])
                /\ (/\ open /\ activeIndex >= 0 /\ activeIndex < Len(view)
                    /\ (onKeyDown("Enter") \/ (isBlank(query) /\ onKeyDown(" "))))
                      => selectedIds' = toggled(selectedIds, view[activeIndex + 1])
                /\ \A id \in Ids :
                      tokenRemove(id) => selectedIds' = toggled(selectedIds, id)]_vars
    /\ [](selectedPrefix(orderedItems, selectedIds)
             = SelectSeq(selectedIds, LAMBDA x : x \in Range(knownItems)))

\* 1 and then 2 were committed: the sequence is [2,1] and the view starts [2,1]
C13_Witness ==
    /\ selectedIds = <<2, 1>>
    /\ Len(orderedItems) >= 2
    /\ SubSeq(orderedItems, 1, 2) = <<2, 1>>

\* C14: starting from a duplicate-free selection, after any sequence of
\* commits, Backspace removals and clear-all the selected-id sequence contains
\* no id twice.
C14_NoDuplicateSelection == noDuplicates(selectedIds)

\* in server mode two ids were selected by commits
C14_Witness ==
    /\ isAsync
    /\ Len(selectedIds) = 2
    /\ viaCommit = Range(selectedIds)

\* the selected ids that a commit added, most recently added first (a commit
\* inserts at the front and nothing else inserts)
addedByCommit == SelectSeq(selectedIds, LAMBDA x : x \in viaCommit)

\* C15: a Backspace key press with empty search text and at least one selected
\* id removes exactly one id, the one most recently added to the selection,
\* and leaves the remaining selected ids in their previous order.
C15_BackspaceRemovesNewest ==
    [][(open /\ query = <<>> /\ Len(selectedIds) > 0 /\ onKeyDown("Backspace")) =>
          \E id \in Range(selectedIds) :
             /\ selectedIds' = SelectSeq(selectedIds, LAMBDA x : x # id)
             /\ Len(selectedIds') = Len(selectedIds) - 1
             /\ addedByCommit # <<>> => id = Head(addedByCommit)]_vars

\* C16: whenever the query text changes while the dropdown is open, and
\* whenever the dropdown goes from closed to open, activeIndex is 0 before the
\* next key event is handled.
C16_CursorResets ==
    [][(open' /\ (query' # query \/ ~open)) => activeIndex' = 0]_vars

\* the query was changed over an open list of several rows (its debounce timer
\* is still pending) and the cursor is on the first row
C16_Witness ==
    /\ isAsync /\ open
    /\ query # <<>>
    /\ \E t \in timers : t.q = query /\ t.delay = searchDelay
    /\ Len(orderedItems) >= 2
    /\ activeIndex = 0

\* C17: in server mode a cursor position reached while the view still showed
\* the previous query's items is never in force for the new query's results:
\* when the results of the load that the debounce timer started for a typed
\* query replace the buffer of the open dropdown, activeIndex is 0. (A position
\* >= 1 can only be reached over rows, and the reset empties the view until
\* the results arrive; over the empty view the keys give 0 or -1.)
C17_NoStaleCursor ==
    [][\A r \in requests :
          (/\ Resolve(r, TRUE) /\ ~r.aborted
           /\ r.reset /\ r.origin = "timer" /\ r.query # <<>>
           /\ open /\ activeIndex >= 0)
             => activeIndex' = 0]_vars

\* C18: while the dropdown is open the confirm key commits exactly the item at
\* position activeIndex of the current ordered view, and changes neither the
\* selection nor the search text nor the cache when there is no such item (the
\* view is empty).
C18_ConfirmCommitsActive ==
    [][(open /\ onKeyDown("Enter")) =>
          IF onRow
          THEN selectedIds' = toggled(selectedIds, orderedItems[activeIndex + 1])
          ELSE UNCHANGED <<selectedIds, query, selectedItemsCache>>]_vars

\* the row under a cursor below the first row was committed: its id leads the
\* selection and the view, the cursor is where it was
C18_Witness ==
    /\ isAsync /\ open
    /\ activeIndex >= 1
    /\ Len(selectedIds) = 1
    /\ viaCommit = {selectedIds[1]}
    /\ Len(orderedItems) > activeIndex
    /\ orderedItems[1] = selectedIds[1]
    /\ selectedIds[1] = asyncItems[activeIndex + 1]

\* C19: while the dropdown is open the space key commits the item at the
\* cursor only when the search text is empty; with any non-empty search text
\* the space key commits nothing (and is left to be entered as text).
C19_SpaceCommitsOnlyOnEmptyText ==
    [][(open /\ onKeyDown(" ")) =>
          IF query = <<>>
          THEN onRow =>
                  selectedIds' = toggled(selectedIds, orderedItems[activeIndex + 1])
          ELSE UNCHANGED <<selectedIds, query, selectedItemsCache>>]_vars

\* C20: every commit, selecting or deselecting, by mouse, confirm key, space
\* key or token removal, leaves the search text empty (no step that ends with
\* a non-empty search text is a commit).
C20_CommitClearsQuery ==
    [][query' # <<>> => ~commitStep]_vars

\* in server mode an id was committed and the search text went back to empty:
\* the debounce timer of the empty text is pending
C20_Witness ==
    /\ isAsync /\ open
    /\ query = <<>>
    /\ selectedIds # <<>> /\ selectedIds[1] \in viaCommit
    /\ \E t \in timers : t.q = <<>> /\ t.delay = searchDelay

\* C21: while the dropdown is closed, a down-arrow or confirm key only opens
\* it: the step commits nothing and leaves the selected ids, the search text
\* and the selected-item cache as they were.
C21_ClosedKeyOnlyOpens ==
    [][(~open /\ (onKeyDown("ArrowDown") \/ onKeyDown("Enter")))
          => /\ open'
             /\ UNCHANGED <<selectedIds, query, selectedItemsCache, viaCommit>>]_vars

\* the dropdown was closed (Escape) over a typed text and a selection and is
\* open again, the view loaded and the cursor on its first row
C21_Witness ==
    /\ isAsync /\ open /\ activeIndex = 0
    /\ query = <<"a">> /\ selectedIds = <<3>>
    /\ asyncItems # <<>> /\ timers = {} /\ requests = {}

\* the keys that move the cursor
NavKeys == {"ArrowDown", "ArrowUp", "Home", "End"}

\* C22: a step that changes the selected ids, the search text, the item buffer
\* or the selected-item cache is no cursor movement (arrows, Home, End), no
\* opening and no Escape; Escape on the open dropdown closes it and changes
\* nothing else.
C22_NavigationFrame ==
    /\ [][(~UNCHANGED <<selectedIds, query, asyncItems, selectedItemsCache>>)
             => /\ \A key \in NavKeys \cup {"Escape"} : ~onKeyDown(key)
                /\ ~inputFocus
                /\ ~(~open /\ onKeyDown("Enter"))]_vars
    /\ [][(open /\ onKeyDown("Escape"))
             => /\ ~open'
                /\ UNCHANGED <<mode, query, selectedIds, activeIndex, asyncItems,
                               loading, hasMore, error, selectedItemsCache,
                               pageRef, queryRef, loadingRef, initialLoadDoneRef,
                               abortControllerRef, lastQueryRef, debounceTimerRef,
                               timers, requests, lastPageLen, viaCommit, call>>]_vars

\* Escape closed the dropdown with the cursor below the first row, over a
\* selection made by a commit: cursor, selection, cache and buffer are kept
C22_Witness ==
    /\ isAsync /\ ~open /\ activeIndex >= 1
    /\ selectedIds # <<>> /\ viaCommit = Range(selectedIds)
    /\ selectedItemsCache = Range(selectedIds)
    /\ Len(asyncItems) > activeIndex

\* n is an ordered subsequence of h
isSubsequence(n, h) ==
    \E f \in [1..Len(n) -> 1..Len(h)] :
        /\ \A i \in 1..Len(n) : h[f[i]] = n[i]
        /\ \A i, j \in 1..Len(n) : i < j => f[i] < f[j]

\* C23: fuzzyScore returns no-match exactly when the lower-cased needle is not
\* an ordered subsequence of the lower-cased haystack, a number >= 0
\* otherwise, and 0 for the empty needle.
C23_ScoreIffSubsequence ==
    call.op = "fuzzyScore" =>
        LET h == toLowerCase(call.haystack)
            n == toLowerCase(call.needle)
        IN  /\ (call.result = NoMatch) <=> ~isSubsequence(n, h)
            /\ call.result # NoMatch => call.result >= 0
            /\ call.needle = <<>> => call.result = 0

\* "a" matches "llA" across the letter case, two code units in: score 1
C23_Witness ==
    /\ call.op = "fuzzyScore"
    /\ call.haystack = <<"l", "l", "A">> /\ call.needle = <<"a">>
    /\ isSubsequence(toLowerCase(call.needle), toLowerCase(call.haystack))
    /\ call.result = 1

\* C24: the score, no-match included, is the same with the needle in upper
\* case and with the haystack in upper case.
C24_CaseInsensitive ==
    call.op = "fuzzyScore" =>
        /\ call.result = fuzzyScore(call.haystack, toUpperCase(call.needle))
        /\ call.result = fuzzyScore(toUpperCase(call.haystack), call.needle)

\* the needle is a prefix of the haystack, letter case aside
isPrefixMatch(haystack, needle) ==
    startsWith(toLowerCase(haystack), toLowerCase(needle))

\* C25: for a non-empty needle, a haystack that starts with the needle scores
\* strictly lower than every haystack that the needle matches only as a
\* subsequence that is no prefix.
C25_PrefixBeatsSubsequence ==
    (/\ call.op = "fuzzyScore"
     /\ call.needle # <<>>
     /\ isPrefixMatch(call.haystack, call.needle))
        => \A other \in Texts(MaxHaystackLen) :
              (/\ ~isPrefixMatch(other, call.needle)
               /\ fuzzyScore(other, call.needle) # NoMatch)
                 => call.result < fuzzyScore(other, call.needle)

\* the matches of a fuzzyFilter call in the order the claim gives them: each
\* matching item once, ascending score, equal scores in input order
sortedMatches(items, q) ==
    LET matches == SelectSeq(items, LAMBDA id : fuzzyScore(Label(id), q) # NoMatch)
    IN  CHOOSE full \in [1..Len(matches) -> Range(matches)] :
            /\ Range(full) = Range(matches)
            /\ \A i, j \in 1..Len(full) :
                  i < j =>
                    \/ fuzzyScore(Label(full[i]), q) < fuzzyScore(Label(full[j]), q)
                    \/ /\ fuzzyScore(Label(full[i]), q) = fuzzyScore(Label(full[j]), q)
                       /\ indexOf(items, full[i]) < indexOf(items, full[j])

\* C26: fuzzyFilter returns the matching items, each once, by ascending score
\* with equal scores in input order; with a limit k >= 0, the first
\* min(k, number of matches) entries of that list.
C26_FilterSortsAndLimits ==
    call.op = "fuzzyFilter" =>
        LET full == sortedMatches(call.items, call.query)
            k == IF call.limit = NoLimit \/ call.limit > Len(full)
                 THEN Len(full) ELSE call.limit
        IN  call.result = SubSeq(full, 1, k)

\* "a" over the four items with limit 2: Alpha and Gamma (score 0 each, in
\* input order) are kept, Beta and Delta are cut
C26_Witness ==
    /\ call.op = "fuzzyFilter"
    /\ call.items = mockItems /\ call.query = <<"a">> /\ call.limit = 2
    /\ Len(sortedMatches(call.items, call.query)) = 4
    /\ call.result = <<1, 3>>

\* C27: with at least one row, startIndex and endIndex of the window are both
\* in 0..totalCount - 1; with no row the window is empty and the content
\* height is 0.
C27_WindowInBounds ==
    call.op = "window" =>
        IF call.total >= 1
        THEN /\ call.result.startIndex \in 0..(call.total - 1)
             /\ call.result.endIndex \in 0..(call.total - 1)
        ELSE /\ visibleRows(call.result, call.total) = {}
             /\ call.result.endIndex < call.result.startIndex
             /\ call.result.contentHeight = 0

\* row r's extent [r*rowHeight, (r+1)*rowHeight) overlaps the viewport
\* [scrollTop, scrollTop + height)
overlapsViewport(r, scrollTop, height, rowHeight) ==
    /\ height > 0
    /\ r * rowHeight < scrollTop + height
    /\ scrollTop < (r + 1) * rowHeight

\* C28: every row of 0..totalCount - 1 whose extent overlaps the viewport lies
\* in the window startIndex..endIndex.
C28_VisibleRowsInWindow ==
    call.op = "window" =>
        \A r \in 0..(call.total - 1) :
            overlapsViewport(r, call.scrollTop, call.height, call.rowHeight)
              => /\ call.result.startIndex <= r
                 /\ r <= call.result.endIndex

\* the viewport starts inside row 0 and ends inside row 1, no overscan: both
\* rows are in the window
C28_Witness ==
    /\ call.op = "window"
    /\ call.scrollTop = 1 /\ call.height = 2 /\ call.rowHeight = 2
    /\ call.overscan = 0 /\ call.total = 3
    /\ overlapsViewport(0, call.scrollTop, call.height, call.rowHeight)
    /\ overlapsViewport(1, call.scrollTop, call.height, call.rowHeight)
    /\ call.result.startIndex = 0 /\ call.result.endIndex >= 1

\* the window width
width(w) == w.endIndex - w.startIndex + 1

\* C29: with scroll offset, row height, overscan and totalCount fixed, a
\* viewport at least as high gives a window at least as wide.
C29_WidthMonotoneInHeight ==
    call.op = "window" =>
        \A taller \in call.height..(MaxHeight + 1) :
            width(computeWindow(call.scrollTop, taller, call.rowHeight,
                                call.overscan, call.total))
              >= width(call.result)

\* a window that a viewport one unit higher makes strictly wider
C29_Witness ==
    /\ call.op = "window"
    /\ call.total = MaxTotal /\ call.overscan = 0 /\ call.scrollTop = 0
    /\ width(call.result) >= 1
    /\ width(computeWindow(call.scrollTop, call.height + 1, call.rowHeight,
                           call.overscan, call.total)) > width(call.result)

\* C30: rendering the widget with neither items nor fetchItems throws at once:
\* no loader, cursor or selection state comes to exist and no fetch is issued;
\* with at least one of the two it does not throw and the widget is mounted.
C30_FailsFastWithoutSource ==
    /\ [][call.op = "props" =>
            IF ~call.items /\ ~call.fetchItems
            THEN call'.op = "threw" /\ unmounted'
            ELSE call'.op # "threw" /\ mode' # "unmounted"]_vars
    /\ [](call.op \in {"props", "threw"} => unmounted)
    /\ [][call.op = "threw" => UNCHANGED vars]_vars

\* the render without items and without fetchItems has thrown
C30_Witness ==
    /\ call.op = "threw"
    /\ ~call.items /\ ~call.fetchItems
    /\ unmounted

\* pages 0 .. n-1 of query q, in order
RECURSIVE pagesOf(_, _)
pagesOf(q, n) ==
    IF n <= 0 THEN <<>> ELSE pagesOf(q, n - 1) \o fetchItems(q, n - 1)

\* C31: in server mode the item buffer is the in-order concatenation of pages
\* 0 .. pageRef-1 of one query, the one the last reset-and-load ran for (the
\* formula asks only that some query of the user's has these pages).
C31_BufferIsPagePrefix ==
    isAsync => \E q \in Queries : asyncItems = pagesOf(q, pageRef)

\* the requests that are in flight and not cancelled
live == {r \in requests : ~r.aborted}

\* C35: in server mode, whenever loading is true a request that is not
\* cancelled is in flight (its resolution sets loading back to false).
C35_LoadingHasLiveRequest ==
    (isAsync /\ loading) => live # {}

\* C36: at every moment at most one request is in flight and not cancelled.
C36_AtMostOneLiveRequest ==
    Cardinality(live) <= 1

\* a page is being loaded on a scroll, the dropdown is open over a non-empty
\* buffer that has more pages: scrolling again starts no second request
C36_Witness ==
    /\ isAsync /\ open /\ loading /\ hasMore /\ ~error
    /\ Len(asyncItems) > 0
    /\ \E r \in live : r.origin = "scroll" /\ live = {r}

\* C37: in server mode every key of the selected-item cache is a selected id.
C37_CacheKeysSelected ==
    isAsync => selectedItemsCache \subseteq Range(selectedIds)

\* C32: in server mode the load issued at mount is for the empty query and
\* page 0, without a debounce delay; every later change of the query arms its
\* debounce timeout with the full searchDelay.
C32_DebounceAfterFirstLoad ==
    /\ [](isAsync => \A r \in requests :
             r.origin = "mount" => r.query = <<>> /\ r.page = 0 /\ r.reset)
    /\ [][(isAsync /\ query' # query)
             => \A t \in timers' : t.q = query' => t.delay = searchDelay]_vars

\* where a cursor key puts the cursor over a view of n rows
keyTarget(key, idx, n) ==
    CASE key = "ArrowDown" -> Min(idx + 1, n - 1)
      [] key = "ArrowUp"   -> Max(idx - 1, 0)
      [] key = "Home"      -> 0
      [] key = "End"       -> n - 1

\* C33: while the dropdown is open over a non-empty view of n rows, down-arrow
\* sets the cursor to min(activeIndex + 1, n - 1), up-arrow to
\* max(activeIndex - 1, 0), Home to 0 and End to n - 1, and the cursor is in
\* 0..n-1 after the key.
C33_CursorKeysClamp ==
    [][\A key \in NavKeys :
          (open /\ Len(orderedItems) > 0 /\ onKeyDown(key))
            => /\ activeIndex' = keyTarget(key, activeIndex, Len(orderedItems))
               /\ activeIndex' \in 0..(Len(orderedItems) - 1)]_vars

\* the 0-based haystack positions at which the scan matches the needle's code
\* units, in needle order: each the first occurrence after the previous match
RECURSIVE matchedAt(_, _, _)
matchedAt(h, n, from) ==
    IF n = <<>> THEN <<>>
    ELSE LET p == CHOOSE k \in from..(Len(h) - 1) :
                      /\ h[k + 1] = Head(n)
                      /\ \A j \in from..(k - 1) : h[j + 1] # Head(n)
         IN  <<p>> \o matchedAt(h, Tail(n), p + 1)

\* the run of adjacent match positions that ends at the i-th match
RECURSIVE runEndingAt(_, _)
runEndingAt(pos, i) ==
    IF i > 1 /\ pos[i] = pos[i - 1] + 1 THEN runEndingAt(pos, i - 1) + 1 ELSE 1

\* C34: the consecutive-run length that fuzzyScore ends with is the length of
\* the run of matches at adjacent haystack positions (it grows by one only
\* when needle unit i is matched right after the position where unit i-1 was
\* matched, and restarts at 1 otherwise), and the score subtracts that length.
C34_RunCountsAdjacentMatches ==
    (call.op = "fuzzyScore" /\ call.needle # <<>> /\ call.result # NoMatch) =>
        LET h == toLowerCase(call.haystack)
            n == toLowerCase(call.needle)
            r == fuzzyScan(h, n, 0, 0, 0, 0, -1)
            run == runEndingAt(matchedAt(h, n, 0), Len(n))
            total == r.penalty + (IF startsWith(h, n) THEN -5 ELSE 0)
                       + (IF isWordBoundary(h, r.firstMatchIndex) THEN -3 ELSE 0)
                       - run
        IN  /\ r.consecutive = run
            /\ call.result = Max(0, total)

\* C39: when the haystack starts with the non-empty needle, letter case aside,
\* fuzzyScore returns exactly 0.
C39_PrefixScoresZero ==
    (/\ call.op = "fuzzyScore"
     /\ call.needle # <<>>
     /\ isPrefixMatch(call.haystack, call.needle))
        => call.result = 0

\* "Al " starts with "al", letter case aside: score 0
C39_Witness ==
    /\ call.op = "fuzzyScore"
    /\ call.haystack = <<"A", "l", " ">> /\ call.needle = <<"a", "l">>
    /\ isPrefixMatch(call.haystack, call.needle)
    /\ call.result = 0

\* C38: in local mode, when the confirm key commits the unselected item under
\* the cursor while the search text is empty, the cursor stays where it is and
\* the committed item becomes the first row of the ordered view.
C38_CommitKeepsCursor ==
    [][(/\ isSync /\ open /\ query = <<>> /\ onRow
        /\ orderedItems[activeIndex + 1] \notin Range(selectedIds)
        /\ onKeyDown("Enter"))
          => /\ activeIndex' = activeIndex
             /\ orderedItems'[1] = orderedItems[activeIndex + 1]
             /\ orderedItems[activeIndex + 1] \in Range(selectedIds')]_vars

\* Delta was committed from the last row: it is the first row now and the
\* cursor is still on the last row
C38_Witness ==
    /\ isSync /\ open /\ query = <<>>
    /\ activeIndex = 3 /\ selectedIds = <<4>>
    /\ orderedItems = <<4, 1, 2, 3>>

\* C40: the window never has more than
\* ceil(height / rowHeight) + 2 * overscan + 2 rows.
C40_WindowWidthBound ==
    call.op = "window" =>
        width(call.result)
          <= ceilDiv(call.height, call.rowHeight) + 2 * call.overscan + 2

\* a window of exactly that many rows: the viewport starts and ends inside a row
C40_Witness ==
    /\ call.op = "window"
    /\ call.total = MaxTotal /\ call.overscan = 0 /\ call.height > 0
    /\ width(call.result) = ceilDiv(call.height, call.rowHeight) + 2
    /\ width(call.result) = Cardinality(visibleRows(call.result, call.total))

====
